---- MODULE Spec2Model ----
(***************************************************************************)
(* CrossEncoderReranker (python/lancedb/rerankers/cross_encoder.py).       *)
(*                                                                         *)
(* A pyarrow table is modelled as [schema |-> set of column names,         *)
(* rows |-> sequence of rows], a row being a function from the column      *)
(* names to values.  One reranker instance is constructed and then serves  *)
(* a sequence of synchronous rerank calls; a call is a linear pipeline     *)
(* whose position is pc:                                                   *)
(*   idle -> rerank -> model -> predict -> append -> policy                *)
(*        -> returned | raised -> idle                                     *)
(***************************************************************************)
EXTENDS Integers, Sequences, FiniteSets

\* ------------------------------------------------------------------ bounds
MaxRows == 3            \* rows handed to one call (both inputs together)
MaxScore == 2           \* the stub provider scores with 1..MaxScore

\* --------------------------------------------------------------- constants
Null == 0               \* the null of a column promoted into a wider schema
DefaultModelName == "cross-encoder/ms-marco-TinyBERT-L-6"
DefaultColumn == "text"
RelevanceColumn == "_relevance_score"
DistanceColumn == "_distance"
ScoreColumn == "_score"
RowIdColumn == "_rowid"

Keys == 1..MaxRows
Scores == 1..MaxScore
Queries == {"q"}
ReturnScores == {"relevance", "all"}
DeviceArgs == {"None", "cpu", "cuda"}
MergeStrategies == {"concat", "union_by_key"}

VARIABLES
    torch_ok,        \* environment: the torch package can be imported
    sbert_ok,        \* environment: sentence_transformers can be imported
    phase,           \* "new" | "ready" | "ctor_failed"
    self,            \* the instance attributes set by __init__
    model,           \* the cached_property slot: <<>> or <<handle>>
    created,         \* number of CrossEncoder objects built so far
    pc,              \* position of the call in progress
    op,              \* entry operation of the call in progress
    query,           \* its query
    candidate,       \* the table handed to _rerank
    result_set,      \* the working table of the call, and its return value
    cross_inp,       \* the pairs sent to predict
    cross_scores,    \* what predict returned
    indices,         \* the sort indices the final sort_by took
    predict_calls,   \* predict invocations of the call in progress
    created_in_call, \* whether this call built the model
    error            \* the exception the call (or __init__) raised

vars == <<torch_ok, sbert_ok, phase, self, model, created, pc, op, query,
          candidate, result_set, cross_inp, cross_scores, indices,
          predict_calls, created_in_call, error>>

env_vars == <<torch_ok, sbert_ok>>
inst_vars == <<phase, self>>
model_vars == <<model, created, created_in_call>>

EmptyTable == [schema |-> {}, rows |-> <<>>]
NoSelf == [model_name |-> "", column |-> "", device |-> "", score |-> ""]

\* ------------------------------------------------------------ input tables
Passage(k) == IF k % 2 = 1 THEN "a" ELSE "b"

Cell(c, k) == IF c = DefaultColumn THEN Passage(k) ELSE k

KeySeqs ==
    {s \in UNION {[1..n -> Keys] : n \in 0..MaxRows} :
        \A i, j \in DOMAIN s : i # j => s[i] # s[j]}

MakeTable(S, ks) ==
    [schema |-> S, rows |-> [i \in DOMAIN ks |-> [c \in S |-> Cell(c, ks[i])]]]

VectorSchemas ==
    {{RowIdColumn, DefaultColumn, DistanceColumn},
     {RowIdColumn, DistanceColumn},
     {RowIdColumn, DefaultColumn}}

FtsSchemas ==
    {{RowIdColumn, DefaultColumn, ScoreColumn},
     {RowIdColumn, ScoreColumn},
     {RowIdColumn, DefaultColumn}}

VectorTables == {MakeTable(S, ks) : S \in VectorSchemas, ks \in KeySeqs}
FtsTables == {MakeTable(S, ks) : S \in FtsSchemas, ks \in KeySeqs}

\* the two retrievals of one hybrid search: each carries its own score column
HybridVectorTables == {t \in VectorTables : DistanceColumn \in t.schema}
HybridFtsTables == {t \in FtsTables : ScoreColumn \in t.schema}

\* what a stub provider may hand back for n pairs: any scores of the right
\* length, or a list one shorter or one longer
ProviderOutputs(n) ==
    [1..n -> Scores] \cup
    {[i \in 1..m |-> ((i - 1) % MaxScore) + 1] : m \in {n - 1, n + 1} \cap Nat}

\* ------------------------------------------------------- table operations
NumRows(t) == Len(t.rows)

\* Table.append_column: a column of another length is rejected
append_column_ok(t, values) == Len(values) = NumRows(t)

\* the scores attached to the rows in the opposite order
append_column_reversed(t, name, values) ==
    [schema |-> t.schema \cup {name},
     rows |-> [i \in 1..NumRows(t) |->
                 [c \in t.schema \cup {name} |->
                     IF c = name THEN values[NumRows(t) + 1 - i]
                     ELSE t.rows[i][c]]]]

append_column(t, name, values) ==
    [schema |-> t.schema \cup {name},
     rows |-> [i \in 1..NumRows(t) |->
                 [c \in t.schema \cup {name} |->
                     IF c = name THEN values[i] ELSE t.rows[i][c]]]]

\* Table.drop_columns: an unknown column is a KeyError
drop_columns_ok(t, names) == names \subseteq t.schema

drop_columns(t, names) ==
    [schema |-> t.schema \ names,
     rows |-> [i \in 1..NumRows(t) |-> [c \in t.schema \ names |-> t.rows[i][c]]]]

\* a sort that orders ascending
sort_indices_ascending(s) ==
    [k \in 1..Len(s) |->
        CHOOSE i \in 1..Len(s) :
            k = 1 + Cardinality({j \in 1..Len(s) :
                        s[j] < s[i] \/ (s[j] = s[i] /\ j < i)})]

\* a descending sort that does not keep the input order of equal scores
sort_indices_unstable(s) ==
    [k \in 1..Len(s) |->
        CHOOSE i \in 1..Len(s) :
            k = 1 + Cardinality({j \in 1..Len(s) :
                        s[j] > s[i] \/ (s[j] = s[i] /\ j > i)})]

\* compute.sort_indices, descending: the documented stable sort
Rank(s, i) ==
    1 + Cardinality({j \in 1..Len(s) : s[j] > s[i] \/ (s[j] = s[i] /\ j < i)})

sort_indices(s) ==
    [k \in 1..Len(s) |-> CHOOSE i \in 1..Len(s) : Rank(s, i) = k]

take(t, idx) ==
    [schema |-> t.schema, rows |-> [k \in 1..Len(idx) |-> t.rows[idx[k]]]]

Column(t, name) == [i \in 1..NumRows(t) |-> t.rows[i][name]]

\* Table.sort_by([(name, "descending")])
sort_by(t, name) == take(t, sort_indices(Column(t, name)))

\* ------------------------------------------------- base class (Reranker)
Promote(row, S) == [c \in S |-> IF c \in DOMAIN row THEN row[c] ELSE Null]

FirstOfKey(rows, i) ==
    \A j \in 1..(i - 1) : rows[j][RowIdColumn] # rows[i][RowIdColumn]

RECURSIVE KeepFirst(_, _)
KeepFirst(rows, i) ==
    IF i > Len(rows) THEN <<>>
    ELSE IF FirstOfKey(rows, i) THEN <<rows[i]>> \o KeepFirst(rows, i + 1)
    ELSE KeepFirst(rows, i + 1)

merge_results_ok(v, f, column) == column \in v.schema /\ column \in f.schema

merge_results(v, f, strategy) ==
    LET S == v.schema \cup f.schema
        all == [i \in 1..(NumRows(v) + NumRows(f)) |->
                  IF i <= NumRows(v) THEN Promote(v.rows[i], S)
                  ELSE Promote(f.rows[i - NumRows(v)], S)]
    IN  [schema |-> S,
         rows |-> IF strategy = "union_by_key" THEN KeepFirst(all, 1) ELSE all]

keep_relevance_score(t) ==
    drop_columns(t, t.schema \cap {DistanceColumn, ScoreColumn})

attempt_import_or_raise(available) == IF available THEN "ok" ELSE "ImportError"

\* ------------------------------------------------------------------- Init
Init ==
    /\ torch_ok \in BOOLEAN
    /\ sbert_ok \in BOOLEAN
    /\ phase = "new"
    /\ self = NoSelf
    /\ model = <<>>
    /\ created = 0
    /\ pc = "idle"
    /\ op = "none"
    /\ query = ""
    /\ candidate = EmptyTable
    /\ result_set = EmptyTable
    /\ cross_inp = <<>>
    /\ cross_scores = <<>>
    /\ indices = <<>>
    /\ predict_calls = 0
    /\ created_in_call = FALSE
    /\ error = "none"

call_vars == <<pc, op, query, candidate, result_set, cross_inp, cross_scores,
               indices, predict_calls, created_in_call, error>>

\* a constructor that does not import torch
Construct_without_torch(device, return_score, cuda_available) ==
    /\ phase = "new"
    /\ phase' = "ready"
    /\ self' = [model_name |-> DefaultModelName,
                column |-> DefaultColumn,
                device |-> IF device = "None"
                           THEN (IF cuda_available /\ torch_ok THEN "cuda" ELSE "cpu")
                           ELSE device,
                score |-> return_score]
    /\ UNCHANGED <<env_vars, model, created, call_vars>>

\* ---------------------------------------------------------------- __init__
Construct(device, return_score, cuda_available) ==
    /\ phase = "new"
    /\ IF attempt_import_or_raise(torch_ok) # "ok"
       THEN /\ phase' = "ctor_failed"
            /\ error' = "ImportError"
            /\ self' = self
       ELSE /\ phase' = "ready"
            /\ error' = error
            /\ self' = [model_name |-> DefaultModelName,
                        column |-> DefaultColumn,
                        device |-> IF device = "None"
                                   THEN (IF cuda_available THEN "cuda" ELSE "cpu")
                                   ELSE device,
                        score |-> return_score]
    /\ UNCHANGED <<env_vars, model, created, pc, op, query, candidate,
                   result_set, cross_inp, cross_scores, indices,
                   predict_calls, created_in_call>>

init ==
    \E device \in DeviceArgs, return_score \in ReturnScores, cuda \in BOOLEAN :
        Construct(device, return_score, cuda)

\* ------------------------------------------------------- entry operations
Enter(name, q, table) ==
    /\ phase = "ready"
    /\ pc = "idle"
    /\ op' = name
    /\ query' = q
    /\ candidate' = table
    /\ result_set' = table
    /\ pc' = "rerank"
    /\ UNCHANGED <<env_vars, inst_vars, model_vars, cross_inp, cross_scores,
                   indices, predict_calls, error>>

rerank_vector ==
    /\ pc = "idle"
    /\ \E q \in Queries, vector_results \in VectorTables :
          Enter("vector", q, vector_results)

rerank_fts ==
    /\ pc = "idle"
    /\ \E q \in Queries, fts_results \in FtsTables :
          Enter("fts", q, fts_results)

rerank_hybrid ==
    /\ phase = "ready"
    /\ pc = "idle"
    /\ \E q \in Queries, vector_results \in HybridVectorTables,
          fts_results \in HybridFtsTables, strategy \in MergeStrategies :
        /\ NumRows(vector_results) + NumRows(fts_results) <= MaxRows
        /\ op' = "hybrid"
        /\ query' = q
        /\ IF merge_results_ok(vector_results, fts_results, self.column)
           THEN /\ candidate' = merge_results(vector_results, fts_results, strategy)
                /\ result_set' = candidate'
                /\ pc' = "rerank"
                /\ error' = error
           ELSE /\ candidate' = EmptyTable
                /\ result_set' = EmptyTable
                /\ pc' = "raised"
                /\ error' = "SchemaError"
        /\ UNCHANGED <<env_vars, inst_vars, model_vars, cross_inp,
                       cross_scores, indices, predict_calls>>

\* ------------------------------------------------------------------ _rerank
Raise(e) ==
    /\ pc' = "raised"
    /\ error' = e

\* a scoring step that does not look the text column up before going on
rerank_passages_unchecked ==
    /\ pc = "rerank"
    /\ cross_inp' = [i \in 1..NumRows(result_set) |->
                       <<query, IF self.column \in result_set.schema
                                THEN result_set.rows[i][self.column]
                                ELSE "">>]
    /\ pc' = "model"
    /\ UNCHANGED <<env_vars, inst_vars, model_vars, op, query, candidate,
                   result_set, cross_scores, indices, predict_calls, error>>

rerank_passages ==
    /\ pc = "rerank"
    /\ IF self.column \in result_set.schema
       THEN /\ cross_inp' = [i \in 1..NumRows(result_set) |->
                               <<query, result_set.rows[i][self.column]>>]
            /\ pc' = "model"
            /\ error' = error
       ELSE /\ Raise("KeyError")
            /\ cross_inp' = cross_inp
    /\ UNCHANGED <<env_vars, inst_vars, model_vars, op, query, candidate,
                   result_set, cross_scores, indices, predict_calls>>

\* a plain property: the model is built on every access
model_access_uncached ==
    /\ pc = "model"
    /\ IF attempt_import_or_raise(sbert_ok) # "ok"
       THEN /\ Raise("ImportError")
            /\ UNCHANGED <<model, created, created_in_call>>
       ELSE /\ model' = <<[id |-> created + 1,
                           model_name |-> self.model_name,
                           device |-> self.device]>>
            /\ created' = created + 1
            /\ created_in_call' = TRUE
            /\ pc' = "predict"
            /\ error' = error
    /\ UNCHANGED <<env_vars, inst_vars, op, query, candidate, result_set,
                   cross_inp, cross_scores, indices, predict_calls>>

model_access ==
    /\ pc = "model"
    /\ IF model # <<>>
       THEN /\ pc' = "predict"
            /\ UNCHANGED <<model, created, created_in_call, error>>
       ELSE IF attempt_import_or_raise(sbert_ok) # "ok"
       THEN /\ Raise("ImportError")
            /\ UNCHANGED <<model, created, created_in_call>>
       ELSE /\ model' = <<[id |-> created + 1,
                           model_name |-> self.model_name,
                           device |-> self.device]>>
            /\ created' = created + 1
            /\ created_in_call' = TRUE
            /\ pc' = "predict"
            /\ error' = error
    /\ UNCHANGED <<env_vars, inst_vars, op, query, candidate, result_set,
                   cross_inp, cross_scores, indices, predict_calls>>

\* a scoring step that asks the provider again when it raised
model_predict_retrying ==
    /\ pc = "predict"
    /\ predict_calls' = predict_calls + 1
    /\ \/ \E out \in ProviderOutputs(Len(cross_inp)) :
            /\ cross_scores' = out
            /\ pc' = "append"
       \/ /\ pc' = "predict"
          /\ cross_scores' = cross_scores
    /\ UNCHANGED <<env_vars, inst_vars, model_vars, op, query, candidate,
                   result_set, cross_inp, indices, error>>

model_predict ==
    /\ pc = "predict"
    /\ predict_calls' = predict_calls + 1
    /\ \/ \E out \in ProviderOutputs(Len(cross_inp)) :
            /\ cross_scores' = out
            /\ pc' = "append"
            /\ error' = error
       \/ /\ Raise("ProviderError")
          /\ cross_scores' = cross_scores
    /\ UNCHANGED <<env_vars, inst_vars, model_vars, op, query, candidate,
                   result_set, cross_inp, indices>>

\* a scoring step that cuts or pads the scores to the row count
rerank_append_column_padding ==
    /\ pc = "append"
    /\ result_set' = append_column(result_set, RelevanceColumn,
                         [i \in 1..NumRows(result_set) |->
                             IF i <= Len(cross_scores) THEN cross_scores[i] ELSE Null])
    /\ pc' = "policy"
    /\ UNCHANGED <<env_vars, inst_vars, model_vars, op, query, candidate,
                   cross_inp, cross_scores, indices, predict_calls, error>>

rerank_append_column ==
    /\ pc = "append"
    /\ IF append_column_ok(result_set, cross_scores)
       THEN /\ result_set' = append_column(result_set, RelevanceColumn, cross_scores)
            /\ pc' = "policy"
            /\ error' = error
       ELSE /\ Raise("ArrowInvalid")
            /\ result_set' = result_set
    /\ UNCHANGED <<env_vars, inst_vars, model_vars, op, query, candidate,
                   cross_inp, cross_scores, indices, predict_calls>>

\* ------------------------------------------ score policy, sort and return
finish_frame ==
    UNCHANGED <<env_vars, inst_vars, model_vars, op, query, candidate,
                cross_inp, cross_scores, predict_calls>>

\* the closing sort_by of each entry operation
SortAndReturn(t) ==
    /\ indices' = sort_indices(Column(t, RelevanceColumn))
    /\ result_set' = sort_by(t, RelevanceColumn)
    /\ pc' = "returned"
    /\ error' = error

hybrid_finish ==
    /\ pc = "policy"
    /\ op = "hybrid"
    /\ IF self.score = "relevance"
       THEN SortAndReturn(keep_relevance_score(result_set))
       ELSE IF self.score = "all"
       THEN /\ Raise("NotImplementedError")
            /\ UNCHANGED <<result_set, indices>>
       ELSE SortAndReturn(result_set)
    /\ finish_frame

DropAndSort(column) ==
    /\ pc = "policy"
    /\ IF self.score = "relevance"
       THEN IF drop_columns_ok(result_set, {column})
            THEN SortAndReturn(drop_columns(result_set, {column}))
            ELSE /\ Raise("KeyError")
                 /\ UNCHANGED <<result_set, indices>>
       ELSE SortAndReturn(result_set)
    /\ finish_frame

\* a vector path that keeps the distance column in relevance mode
vector_finish_keeps_distance ==
    /\ op = "vector"
    /\ pc = "policy"
    /\ SortAndReturn(result_set)
    /\ finish_frame

vector_finish ==
    /\ op = "vector"
    /\ DropAndSort(DistanceColumn)

fts_finish ==
    /\ op = "fts"
    /\ DropAndSort(ScoreColumn)

\* the caller takes the result (or the exception); the locals are gone
call_ends ==
    /\ pc \in {"returned", "raised"}
    /\ pc' = "idle"
    /\ op' = "none"
    /\ query' = ""
    /\ candidate' = EmptyTable
    /\ result_set' = EmptyTable
    /\ cross_inp' = <<>>
    /\ cross_scores' = <<>>
    /\ indices' = <<>>
    /\ predict_calls' = 0
    /\ created_in_call' = FALSE
    /\ error' = "none"
    /\ UNCHANGED <<env_vars, inst_vars, model, created>>

Next ==
    \/ init
    \/ rerank_vector
    \/ rerank_fts
    \/ rerank_hybrid
    \/ rerank_passages
    \/ model_access
    \/ model_predict
    \/ rerank_append_column
    \/ hybrid_finish
    \/ vector_finish
    \/ fts_finish
    \/ call_ends

Spec == Init /\ [][Next]_vars

\* ================================================================== claims
InputRows == NumRows(candidate)
ScoreColumns == {DistanceColumn, ScoreColumn, RelevanceColumn}
Scoring == {"predict", "append", "policy", "returned"}
IsPermutation(idx, n) ==
    /\ Len(idx) = n
    /\ \A i \in 1..n : \E k \in 1..n : idx[k] = i

\* C1: whenever a rerank operation returns, the returned set is sorted by the
\* relevance score, descending, and every row carries the relevance-score
\* column (once: a row has one cell per column name).
C1_SortedDescending ==
    pc = "returned" =>
        /\ RelevanceColumn \in result_set.schema
        /\ \A i \in 1..NumRows(result_set) :
              /\ DOMAIN result_set.rows[i] = result_set.schema
              /\ result_set.rows[i][RelevanceColumn] \in Scores
        /\ \A i \in 1..(NumRows(result_set) - 1) :
              result_set.rows[i][RelevanceColumn]
                  >= result_set.rows[i + 1][RelevanceColumn]

C1_Witness ==
    /\ pc = "returned"
    /\ NumRows(result_set) >= 2
    /\ indices[1] # 1
    /\ result_set.rows[1][RelevanceColumn]
           > result_set.rows[NumRows(result_set)][RelevanceColumn]

\* C2: rerank_hybrid on a reranker configured with return_score = "all"
\* fails with the not-supported error and never invokes predict.
C2_HybridAllFailsBeforePredict ==
    (phase = "ready" /\ sbert_ok /\ self.score = "all" /\ op = "hybrid") =>
        /\ predict_calls = 0
        /\ pc # "returned"
        /\ (pc = "raised" /\ self.column \in candidate.schema)
               => error = "NotImplementedError"

\* C3: the score columns of a returned set follow from the entry path and the
\* mode: relevance mode leaves the relevance score as the only score column
\* (rerank_vector drops _distance, rerank_fts drops _score, rerank_hybrid
\* both); all mode on the vector and fts paths drops nothing; the non-score
\* columns are kept in both modes.
C3_ScoreColumnsByPathAndMode ==
    pc = "returned" =>
        LET in == candidate.schema
            out == result_set.schema
        IN  /\ out \ ScoreColumns = in \ ScoreColumns
            /\ self.score = "relevance" =>
                  /\ out \cap ScoreColumns = {RelevanceColumn}
                  /\ op = "vector" => out = (in \ {DistanceColumn}) \cup {RelevanceColumn}
                  /\ op = "fts" => out = (in \ {ScoreColumn}) \cup {RelevanceColumn}
                  /\ op = "hybrid" =>
                        out = (in \ {DistanceColumn, ScoreColumn}) \cup {RelevanceColumn}
            /\ self.score = "all" =>
                  /\ op \in {"vector", "fts"}
                  /\ out = in \cup {RelevanceColumn}

C3_Witness ==
    /\ pc = "returned"
    /\ op = "vector"
    /\ self.score = "relevance"
    /\ DistanceColumn \in candidate.schema
    /\ DistanceColumn \notin result_set.schema
    /\ InputRows >= 1

\* C4: when the table handed to the scoring step lacks the configured text
\* column the call raises, returns nothing, and neither predict is invoked
\* nor the model built by that call.
C4_MissingColumnFailsBeforeProvider ==
    (pc \notin {"idle", "rerank"} /\ self.column \notin candidate.schema) =>
        /\ pc = "raised"
        /\ error \in {"KeyError", "SchemaError"}
        /\ predict_calls = 0
        /\ ~created_in_call
        /\ cross_inp = <<>>

C4_Witness ==
    /\ pc = "raised"
    /\ error = "KeyError"
    /\ op = "fts"
    /\ self.column \notin candidate.schema
    /\ InputRows >= 1
    /\ sbert_ok
    /\ model = <<>>

\* C5: when predict returns a list whose length differs from the row count
\* the call raises and returns nothing: no cut or padded result, and predict
\* is not invoked again.
C5_LengthMismatchFails ==
    (predict_calls >= 1 /\ error # "ProviderError"
        /\ Len(cross_scores) # InputRows) =>
        /\ pc \in {"append", "raised"}
        /\ predict_calls = 1
        /\ pc = "raised" => (error = "ArrowInvalid" /\ result_set = candidate)

C5_Witness ==
    /\ pc = "raised"
    /\ error = "ArrowInvalid"
    /\ Len(cross_scores) >= 1
    /\ Len(cross_scores) < InputRows

\* C6: the final sort is stable: of two rows that received equal scores, the
\* one that came first in the scored candidate set comes first in the result.
C6_StableSort ==
    pc = "returned" =>
        /\ Len(indices) = NumRows(result_set)
        /\ \A k \in 1..Len(indices) :
              /\ indices[k] \in 1..InputRows
              /\ result_set.rows[k][RowIdColumn]
                     = candidate.rows[indices[k]][RowIdColumn]
              /\ result_set.rows[k][RelevanceColumn] = cross_scores[indices[k]]
        /\ \A i, j \in 1..Len(indices) :
              (i < j /\ cross_scores[indices[i]] = cross_scores[indices[j]])
                  => indices[i] < indices[j]

C6_Witness ==
    /\ pc = "returned"
    /\ \E i, j, k \in 1..InputRows :
          /\ i < j
          /\ j < k
          /\ cross_scores[i] = cross_scores[j]
          /\ cross_scores[k] > cross_scores[i]
          /\ candidate.rows[i][RowIdColumn] # candidate.rows[j][RowIdColumn]

\* C7: the scoring model is established at most once per instance: absent
\* after construction, built by the first call that reaches the scoring
\* step, and reused unchanged by every later call.
C7_ModelEstablishedOnce ==
    /\ model = <<>>
    /\ [][/\ model # <<>> => model' = model
          /\ (model = <<>> /\ model' # <<>>) => (pc = "model" /\ created' = 1)
          /\ created' # created => model = <<>>]_vars
    /\ [](/\ created <= 1
          /\ Len(model) = created
          /\ phase = "new" => model = <<>>
          /\ pc \in Scoring => model # <<>>)

C7_Witness ==
    /\ pc = "predict"
    /\ model # <<>>
    /\ created = 1
    /\ ~created_in_call

\* C8 (as claimed): with a dependency of the model runtime missing,
\* construction succeeds and the error surfaces only in a rerank call.
C8_ConstructionNeverFails ==
    (phase # "new" /\ (~torch_ok \/ ~sbert_ok)) =>
        /\ phase = "ready"
        /\ error = "ImportError" => pc = "raised"

\* C8 (amended): construction fails with the import error when torch is
\* missing; when torch is present and sentence_transformers is missing,
\* construction succeeds, no model exists, and the import error surfaces in
\* the rerank call that reaches the model, before any predict.
C8_ImportErrorSurfacing ==
    /\ phase # "new" => (phase = "ready" <=> torch_ok)
    /\ phase = "ctor_failed" => (error = "ImportError" /\ pc = "idle")
    /\ (phase = "ready" /\ ~sbert_ok) =>
          /\ model = <<>>
          /\ pc \notin Scoring
          /\ predict_calls = 0
          /\ error = "ImportError" =>
                (pc = "raised" /\ self.column \in candidate.schema)
          /\ (pc = "raised" /\ self.column \in candidate.schema) =>
                error = "ImportError"

C8_Witness ==
    /\ torch_ok
    /\ ~sbert_ok
    /\ phase = "ready"
    /\ pc = "raised"
    /\ error = "ImportError"
    /\ InputRows >= 1

\* C9: within one rerank call predict is invoked at most once, exactly once
\* in a call that returns, as one batch over the whole final candidate set.
C9_PredictOncePerCall ==
    /\ predict_calls <= 1
    /\ pc \in {"idle", "rerank", "model", "predict"} => predict_calls = 0
    /\ pc \in {"append", "policy", "returned"} =>
          /\ predict_calls = 1
          /\ Len(cross_inp) = InputRows

C9_Witness ==
    /\ pc = "returned"
    /\ op = "hybrid"
    /\ predict_calls = 1
    /\ \E i, j \in 1..InputRows :
          /\ candidate.rows[i][ScoreColumn] = Null
          /\ candidate.rows[j][DistanceColumn] = Null

\* C10: the provider is sent one (query, passage) pair per row in row order
\* and its i-th score is attached to the i-th row; the returned rows are the
\* rows of the scored candidate set, each with its own score, reordered only.
C10_RowsKeepTheirScores ==
    /\ pc \in {"model"} \cup Scoring =>
          /\ Len(cross_inp) = InputRows
          /\ \A i \in 1..InputRows :
                cross_inp[i] = <<query, candidate.rows[i][self.column]>>
    /\ pc = "policy" =>
          /\ NumRows(result_set) = InputRows
          /\ \A i \in 1..InputRows :
                /\ result_set.rows[i][RelevanceColumn] = cross_scores[i]
                /\ \A c \in candidate.schema :
                      result_set.rows[i][c] = candidate.rows[i][c]
    /\ pc = "returned" =>
          /\ NumRows(result_set) = InputRows
          /\ IsPermutation(indices, InputRows)
          /\ \A k \in 1..InputRows :
                /\ result_set.rows[k][RelevanceColumn] = cross_scores[indices[k]]
                /\ \A c \in result_set.schema \ {RelevanceColumn} :
                      result_set.rows[k][c] = candidate.rows[indices[k]][c]

C10_Witness ==
    /\ pc = "returned"
    /\ op = "vector"
    /\ InputRows >= 2
    /\ \E k \in 1..InputRows : indices[k] # k
    /\ \E i, j \in 1..InputRows : cross_scores[i] # cross_scores[j]

====
